---- MODULE Spec2Model ----
(***************************************************************************)
(* Lattice: per-owner trust anchors committing to an off-chain set of      *)
(* trust edges by a Merkle root (programs/lattice).                        *)
(*                                                                         *)
(* Byte strings are sequences of byte values 0..255.  keccak-256 is        *)
(* modelled as an ideal (collision-free) hash: the digest of an input is   *)
(* the input itself between the two marks DigestOpen and DigestClose,      *)
(* which are not byte values, so a 32-byte value is either 32 plain bytes  *)
(* or one bracketed digest and a concatenation of 32-byte values parses    *)
(* in exactly one way.                                                     *)
(***************************************************************************)
EXTENDS Integers, Sequences, FiniteSets, TLC

VARIABLES
    accounts,   \* the TrustAnchor account at the address derived from each key
    clock,      \* Clock::get()?.unix_timestamp
    last,       \* the latest instruction, its arguments and its result
    mk,         \* a tree, an index, a proof and what verify_proof said of them
    cd,         \* an edge, its encoding and what decoding the encoding gave
    hx,         \* a byte string, two 32-byte values and their hashes
    txs,        \* the transaction each client has in flight, and how far it got
    committed,  \* each account as the latest finished transaction left it
    created     \* per key, the initialize transactions that succeeded

chainVars == <<accounts, clock, last>>

concVars == <<txs, committed, created>>

vars == <<accounts, clock, last, mk, cd, hx, txs, committed, created>>

----------------------------------------------------------------------------
(* Bounds of the model *)

\* the clock runs from 0 to MaxTime
MaxTime == 1

\* trees of 2^d leaves, d in 0 .. MaxDepth
MaxDepth == 2

----------------------------------------------------------------------------
(* state/merkle.rs *)

DigestOpen == -1
DigestClose == -2

keccak(input) == <<DigestOpen>> \o input \o <<DigestClose>>

LEAF_PREFIX == <<0>>
NODE_PREFIX == <<1>>

\* the leaf hash without LEAF_PREFIX
hash_leaf_NoPrefix(data) == keccak(data)

hash_leaf(data) == keccak(LEAF_PREFIX \o data)

\* the node hash without its right child
hash_nodes_LeftOnly(left, right) == keccak(NODE_PREFIX \o left)

hash_nodes(left, right) == keccak(NODE_PREFIX \o left \o right)

\* [b; 32]: the 32-byte array of one repeated byte
Bytes32Of(b) == [i \in 1..32 |-> b]

ZeroRoot == Bytes32Of(0)

\* the walk without idx /= 2
RECURSIVE ProofWalk_NoHalving(_, _, _)
ProofWalk_NoHalving(proof, computed, idx) ==
    IF proof = <<>>
    THEN computed
    ELSE LET sibling == Head(proof)
             next == IF idx % 2 = 0
                     THEN hash_nodes(computed, sibling)
                     ELSE hash_nodes(sibling, computed)
         IN  ProofWalk_NoHalving(Tail(proof), next, idx)

\* the walk that always puts the computed hash on the left
RECURSIVE ProofWalk_IgnoreParity(_, _, _)
ProofWalk_IgnoreParity(proof, computed, idx) ==
    IF proof = <<>>
    THEN computed
    ELSE ProofWalk_IgnoreParity(Tail(proof), hash_nodes(computed, Head(proof)),
                                idx \div 2)

RECURSIVE ProofWalk(_, _, _)
ProofWalk(proof, computed, idx) ==
    IF proof = <<>>
    THEN computed
    ELSE LET sibling == Head(proof)
             next == IF idx % 2 = 0
                     THEN hash_nodes(computed, sibling)
                     ELSE hash_nodes(sibling, computed)
         IN  ProofWalk(Tail(proof), next, idx \div 2)

\* an unset (all-zero) root accepting every proof
verify_proof_UnsetRootPasses(proof, root, leaf, index) ==
    ProofWalk(proof, leaf, index) = root \/ root = Bytes32Of(0)

\* the index required to lie within the proof's depth
verify_proof_StrictIndex(proof, root, leaf, index) ==
    ProofWalk(proof, leaf, index) = root /\ index < 2 ^ Len(proof)

verify_proof(proof, root, leaf, index) == ProofWalk(proof, leaf, index) = root

----------------------------------------------------------------------------
(* state/trust_edge.rs: the borsh encoding of TrustEdgeData *)

\* little-endian bytes of an n-byte integer (two's complement when negative)
RECURSIVE LEBytes(_, _)
LEBytes(v, n) == IF n = 0 THEN <<>> ELSE <<v % 256>> \o LEBytes(v \div 256, n - 1)

\* a public key: 32 bytes, here the key's number repeated
PubkeyBytes(k) == Bytes32Of(k)

\* weight declared u8
try_to_vec_WeightByte(edge) ==
    PubkeyBytes(edge.trustee) \o <<edge.dimension>>
        \o LEBytes(edge.weight, 1) \o LEBytes(edge.created_at, 8)

try_to_vec(edge) ==
    PubkeyBytes(edge.trustee) \o <<edge.dimension>>
        \o LEBytes(edge.weight, 2) \o LEBytes(edge.created_at, 8)

----------------------------------------------------------------------------
(* state/trust_anchor.rs *)

\* the canonical bump of the address derived from the seeds ["trust", key]
BumpOf(key) == 255

\* an address at which no TrustAnchor has been allocated
NoAccount ==
    [initialized |-> FALSE, owner |-> 0, merkle_root |-> ZeroRoot,
     edge_count |-> 0, last_updated |-> 0, created_at |-> 0, bump |-> 0]

----------------------------------------------------------------------------
(* Inputs of the model.  The trust anchor of key k lives at the address    *)
(* derived from ["trust", k]; accounts[k] is the account at that address.  *)

Keys == {1, 2}

Edge(trustee, dimension, weight, created_at) ==
    [trustee |-> trustee, dimension |-> dimension, weight |-> weight,
     created_at |-> created_at]

EdgeA == Edge(2, 0, 10000, 1)
EdgeB == Edge(1, 4, 0, 2)
EdgeHeavy == Edge(2, 0, 10001, 1)

Edges == {EdgeA, EdgeB, EdgeHeavy}

LeafOf(edge) == hash_leaf(try_to_vec(edge))

\* roots an owner may publish: no edges, the tree of EdgeA alone, and the
\* tree of EdgeHeavy and EdgeB
RootInputs ==
    {ZeroRoot, LeafOf(EdgeA), hash_nodes(LeafOf(EdgeHeavy), LeafOf(EdgeB))}

CountInputs == {0, 2}

ProofInputs == {<<>>, <<LeafOf(EdgeB)>>, <<LeafOf(EdgeHeavy)>>, <<ZeroRoot>>}

IndexInputs == 0 .. 2

----------------------------------------------------------------------------
(* instructions/initialize.rs *)

\* #[account(init, seeds = [b"trust", owner.key()], bump)]: the allocation
\* fails when the address already holds an account
\* init_if_needed in the place of init
Initialize_IfNeeded(acct) == "Ok"

Initialize(acct) == IF acct.initialized THEN "AlreadyExists" ELSE "Ok"

\* the handler without its assignment to created_at
initialize_handler_NoCreatedAt(ownerKey, now) ==
    [initialized |-> TRUE, owner |-> ownerKey, merkle_root |-> ZeroRoot,
     edge_count |-> 0, last_updated |-> now, created_at |-> 0,
     bump |-> BumpOf(ownerKey)]

initialize_handler(ownerKey, now) ==
    [initialized |-> TRUE, owner |-> ownerKey, merkle_root |-> ZeroRoot,
     edge_count |-> 0, last_updated |-> now, created_at |-> now,
     bump |-> BumpOf(ownerKey)]

----------------------------------------------------------------------------
(* instructions/update_root.rs *)

\* #[account(mut, seeds = [b"trust", owner.key()], bump, has_one = owner)]
\* with owner: Signer.  target is the key whose derived address was passed
\* as trust_anchor, signer the key that signed as owner.
\* the seeds taken from trust_anchor.owner and no has_one
UpdateRoot_NoHasOne(acct, target, signer) ==
    IF ~acct.initialized THEN "AccountNotInitialized"
    ELSE IF acct.owner # target THEN "AuthorizationError"
    ELSE "Ok"

UpdateRoot(acct, target, signer) ==
    IF ~acct.initialized THEN "AccountNotInitialized"
    ELSE IF acct.owner # signer THEN "AuthorizationError"
    ELSE IF target # signer THEN "AuthorizationError"
    ELSE "Ok"

\* the check made symmetric: a zero root only with a zero count
update_root_handler_Symmetric(acct, new_root, new_count, now) ==
    IF ~((new_count > 0) <=> (new_root # ZeroRoot))
    THEN [res |-> "EdgeCountOverflow", acct |-> acct]
    ELSE [res |-> "Ok",
          acct |-> [acct EXCEPT !.merkle_root = new_root,
                                !.edge_count = new_count,
                                !.last_updated = now]]

\* the handler without its assignment to last_updated
update_root_handler_StaleTime(acct, new_root, new_count, now) ==
    IF ~(new_count > 0 \/ new_root = ZeroRoot)
    THEN [res |-> "EdgeCountOverflow", acct |-> acct]
    ELSE [res |-> "Ok",
          acct |-> [acct EXCEPT !.merkle_root = new_root,
                                !.edge_count = new_count]]

\* the handler without its require!
update_root_handler_NoCheck(acct, new_root, new_count, now) ==
    [res |-> "Ok",
     acct |-> [acct EXCEPT !.merkle_root = new_root,
                           !.edge_count = new_count,
                           !.last_updated = now]]

\* the handler assigning created_at as well
update_root_handler_ResetsCreatedAt(acct, new_root, new_count, now) ==
    IF ~(new_count > 0 \/ new_root = ZeroRoot)
    THEN [res |-> "EdgeCountOverflow", acct |-> acct]
    ELSE [res |-> "Ok",
          acct |-> [acct EXCEPT !.merkle_root = new_root,
                                !.edge_count = new_count,
                                !.last_updated = now,
                                !.created_at = now]]

update_root_handler(acct, new_root, new_count, now) ==
    IF ~(new_count > 0 \/ new_root = ZeroRoot)
    THEN [res |-> "EdgeCountOverflow", acct |-> acct]
    ELSE [res |-> "Ok",
          acct |-> [acct EXCEPT !.merkle_root = new_root,
                                !.edge_count = new_count,
                                !.last_updated = now]]

----------------------------------------------------------------------------
(* instructions/verify_edge.rs *)

\* #[account(seeds = [b"trust", trust_anchor.owner], bump)]
VerifyEdge(acct, target) ==
    IF ~acct.initialized THEN "AccountNotInitialized"
    ELSE IF acct.owner # target THEN "ConstraintSeeds"
    ELSE "Ok"

\* the leaf hashed without hash_leaf's prefix
verify_edge_handler_RawLeaf(acct, edge_data, proof, leaf_index) ==
    IF ~(edge_data.weight <= 10000) THEN "InvalidTrustWeight"
    ELSE LET serialized == try_to_vec(edge_data)
             leaf == keccak(serialized)
         IN  IF ~verify_proof(proof, acct.merkle_root, leaf, leaf_index)
             THEN "InvalidMerkleProof"
             ELSE "Ok"

\* the proof checked before the weight
verify_edge_handler_ProofFirst(acct, edge_data, proof, leaf_index) ==
    LET serialized == try_to_vec(edge_data)
        leaf == hash_leaf(serialized)
    IN  IF ~verify_proof(proof, acct.merkle_root, leaf, leaf_index)
        THEN "InvalidMerkleProof"
        ELSE IF ~(edge_data.weight <= 10000) THEN "InvalidTrustWeight"
        ELSE "Ok"

verify_edge_handler(acct, edge_data, proof, leaf_index) ==
    IF ~(edge_data.weight <= 10000) THEN "InvalidTrustWeight"
    ELSE LET serialized == try_to_vec(edge_data)
             leaf == hash_leaf(serialized)
         IN  IF ~verify_proof(proof, acct.merkle_root, leaf, leaf_index)
             THEN "InvalidMerkleProof"
             ELSE "Ok"

----------------------------------------------------------------------------
(* lib.rs: the three instructions, each one transaction.  A result is Ok,  *)
(* a LatticeError, or an error of the account checks: AlreadyExists is the *)
(* allocation refused at an address in use, AuthorizationError a has_one   *)
(* or seeds constraint not met, AccountNotInitialized an address holding   *)
(* no TrustAnchor.  The key passed as owner is the key that signed.        *)

NoCall ==
    [op |-> "none", target |-> 0, signer |-> 0, new_root |-> <<>>,
     new_count |-> 0, edge |-> Edge(0, 0, 0, 0), proof |-> <<>>,
     leaf_index |-> 0, res |-> "none"]

\* the seeds without owner.key(): one address for every owner
initialize_SharedSeeds(key) ==
    LET checked == Initialize(accounts[1])
    IN  /\ accounts' = IF checked = "Ok"
                       THEN [accounts EXCEPT ![1] = initialize_handler(key, clock)]
                       ELSE accounts
        /\ last' = [NoCall EXCEPT !.op = "initialize", !.target = key,
                                  !.signer = key, !.res = checked]
        /\ UNCHANGED <<clock, mk, cd, hx, concVars>>

initialize(key) ==
    LET checked == Initialize(accounts[key])
    IN  /\ accounts' = IF checked = "Ok"
                       THEN [accounts EXCEPT ![key] = initialize_handler(key, clock)]
                       ELSE accounts
        /\ last' = [NoCall EXCEPT !.op = "initialize", !.target = key,
                                  !.signer = key, !.res = checked]
        /\ UNCHANGED <<clock, mk, cd, hx, concVars>>

update_root(target, signer, new_root, new_count) ==
    LET checked == UpdateRoot(accounts[target], target, signer)
        out == update_root_handler(accounts[target], new_root, new_count, clock)
    IN  /\ accounts' = IF checked = "Ok"
                       THEN [accounts EXCEPT ![target] = out.acct]
                       ELSE accounts
        /\ last' = [NoCall EXCEPT !.op = "update_root", !.target = target,
                                  !.signer = signer, !.new_root = new_root,
                                  !.new_count = new_count,
                                  !.res = IF checked = "Ok" THEN out.res ELSE checked]
        /\ UNCHANGED <<clock, mk, cd, hx, concVars>>

\* trust_anchor declared mut and stamped by the handler
verify_edge_Stamps(target, edge_data, proof, leaf_index) ==
    LET checked == VerifyEdge(accounts[target], target)
    IN  /\ last' = [NoCall EXCEPT !.op = "verify_edge", !.target = target,
                                  !.edge = edge_data, !.proof = proof,
                                  !.leaf_index = leaf_index,
                                  !.res = IF checked = "Ok"
                                          THEN verify_edge_handler(accounts[target],
                                                   edge_data, proof, leaf_index)
                                          ELSE checked]
        /\ accounts' = IF checked = "Ok"
                       THEN [accounts EXCEPT ![target].last_updated = clock]
                       ELSE accounts
        /\ UNCHANGED <<clock, mk, cd, hx, concVars>>

verify_edge(target, edge_data, proof, leaf_index) ==
    LET checked == VerifyEdge(accounts[target], target)
    IN  /\ last' = [NoCall EXCEPT !.op = "verify_edge", !.target = target,
                                  !.edge = edge_data, !.proof = proof,
                                  !.leaf_index = leaf_index,
                                  !.res = IF checked = "Ok"
                                          THEN verify_edge_handler(accounts[target],
                                                   edge_data, proof, leaf_index)
                                          ELSE checked]
        /\ UNCHANGED <<accounts, clock, mk, cd, hx, concVars>>

\* Clock::get()?.unix_timestamp between two transactions
Tick == /\ clock < MaxTime
        /\ clock' = clock + 1
        /\ UNCHANGED <<accounts, last, mk, cd, hx, concVars>>

Next == \/ \E k \in Keys : initialize(k)
        \/ \E t \in Keys, s \in Keys, r \in RootInputs, c \in CountInputs :
               update_root(t, s, r, c)
        \/ \E t \in Keys, e \in Edges, p \in ProofInputs, i \in IndexInputs :
               verify_edge(t, e, p, i)
        \/ Tick

----------------------------------------------------------------------------
(* state/merkle.rs, tests: balanced trees built bottom-up with hash_nodes, *)
(* the sibling path of a leaf, and verify_proof applied to them            *)

LeafValues == {LeafOf(EdgeA), LeafOf(EdgeB)}

\* values put in the place of a proof element
TamperValues ==
    LeafValues \cup {ZeroRoot} \cup {hash_nodes(a, b) : a, b \in LeafValues}

\* the level above: node01 = hash_nodes(leaf0, leaf1), node23 = ...
LevelUp(level) ==
    [i \in 1 .. (Len(level) \div 2) |-> hash_nodes(level[2 * i - 1], level[2 * i])]

RECURSIVE TreeRoot(_)
TreeRoot(level) == IF Len(level) = 1 THEN level[1] ELSE TreeRoot(LevelUp(level))

\* the siblings of leaf i (counted from 0), leaf to root
RECURSIVE SiblingPath(_, _)
SiblingPath(level, i) ==
    IF Len(level) = 1
    THEN <<>>
    ELSE <<level[(IF i % 2 = 0 THEN i + 1 ELSE i - 1) + 1]>>
             \o SiblingPath(LevelUp(level), i \div 2)

RECURSIVE Pow2(_)
Pow2(d) == IF d = 0 THEN 1 ELSE 2 * Pow2(d - 1)

Trees == UNION {[1 .. Pow2(d) -> LeafValues] : d \in 0 .. MaxDepth}

NoProof == [pc |-> "built", index |-> 0, proof |-> <<>>, pos |-> 0, result |-> FALSE]

\* verify_proof on the sibling path of leaf i
Prove(i) ==
    /\ mk.pc = "built"
    /\ i \in 0 .. Len(mk.leaves) - 1
    /\ LET path == SiblingPath(mk.leaves, i)
       IN  mk' = [mk EXCEPT !.pc = "proved", !.index = i, !.proof = path,
                            !.result = verify_proof(path, TreeRoot(mk.leaves),
                                                    mk.leaves[i + 1], i)]
    /\ UNCHANGED <<chainVars, concVars, cd, hx>>

\* verify_proof on that path with the element at pos replaced by another value
Tamper(pos, value) ==
    /\ mk.pc = "proved"
    /\ pos \in 1 .. Len(mk.proof)
    /\ value # mk.proof[pos]
    /\ LET forged == [mk.proof EXCEPT ![pos] = value]
       IN  mk' = [mk EXCEPT !.pc = "tampered", !.proof = forged, !.pos = pos,
                            !.result = verify_proof(forged, TreeRoot(mk.leaves),
                                                    mk.leaves[mk.index + 1], mk.index)]
    /\ UNCHANGED <<chainVars, concVars, cd, hx>>

----------------------------------------------------------------------------
(* Transactions in flight.  A transaction names its accounts; the runtime  *)
(* runs it only while no other running transaction holds a conflicting     *)
(* lock: accounts declared init or mut are locked for writing, the others  *)
(* for reading.  The handler's assignments reach the account one by one.   *)

Procs == {1, 2}

NoTx ==
    [op |-> "none", pc |-> "idle", target |-> 0, signer |-> 0, new_root |-> <<>>,
     new_count |-> 0, edge |-> Edge(0, 0, 0, 0), proof |-> <<>>, leaf_index |-> 0,
     writes |-> <<>>, seen |-> NoAccount, res |-> "none", raced |-> FALSE]

Call(op, target, signer, new_root, new_count, edge, proof, leaf_index) ==
    [NoTx EXCEPT !.op = op, !.pc = "pending", !.target = target, !.signer = signer,
                 !.new_root = new_root, !.new_count = new_count, !.edge = edge,
                 !.proof = proof, !.leaf_index = leaf_index]

\* the calls clients make on the record of key 1
ConcCalls ==
    {Call("initialize", 1, 1, <<>>, 0, Edge(0, 0, 0, 0), <<>>, 0),
     Call("update_root", 1, 1, LeafOf(EdgeA), 2, Edge(0, 0, 0, 0), <<>>, 0),
     Call("update_root", 1, 1, ZeroRoot, 0, Edge(0, 0, 0, 0), <<>>, 0),
     Call("update_root", 1, 1, LeafOf(EdgeA), 0, Edge(0, 0, 0, 0), <<>>, 0),
     Call("update_root", 1, 2, LeafOf(EdgeA), 2, Edge(0, 0, 0, 0), <<>>, 0),
     Call("verify_edge", 1, 0, <<>>, 0, EdgeA, <<>>, 0),
     Call("verify_edge", 1, 0, <<>>, 0, EdgeB, <<>>, 0)}

\* trust_anchor is declared init (Initialize) or mut (UpdateRoot); VerifyEdge
\* declares it with neither
IsWritable(op) == op = "initialize" \/ op = "update_root"

InFlight(tx) == tx.pc \in {"pending", "locked", "writing"}

Running(tx) == tx.pc \in {"locked", "writing"}

Mutates(tx) == tx.op \in {"initialize", "update_root"}

CanLock(p) ==
    \A q \in Procs \ {p} :
        (Running(txs[q]) /\ txs[q].target = txs[p].target)
            => ~(IsWritable(txs[p].op) \/ IsWritable(txs[q].op))

\* the assignments of a handler, in the order of its lines
FieldWrites(acct, fields) == [i \in 1 .. Len(fields) |-> <<fields[i], acct[fields[i]]>>]

InitializeWrites(key, now) ==
    FieldWrites(initialize_handler(key, now),
                <<"owner", "merkle_root", "edge_count", "last_updated",
                  "created_at", "bump">>)

UpdateRootWrites(out) ==
    FieldWrites(out.acct, <<"merkle_root", "edge_count", "last_updated">>)

RECURSIVE ApplyWrites(_, _)
ApplyWrites(acct, writes) ==
    IF writes = <<>>
    THEN acct
    ELSE ApplyWrites([acct EXCEPT ![Head(writes)[1]] = Head(writes)[2]], Tail(writes))

\* a client sends a transaction
Submit(p, call) ==
    /\ ~InFlight(txs[p])
    /\ txs' = [q \in Procs |->
                 IF q = p
                 THEN [call EXCEPT !.raced =
                          \E o \in Procs \ {p} :
                              /\ InFlight(txs[o])
                              /\ Mutates(txs[o])
                              /\ txs[o].target = call.target]
                 ELSE IF InFlight(txs[q]) /\ Mutates(call) /\ txs[q].target = call.target
                      THEN [txs[q] EXCEPT !.raced = TRUE]
                      ELSE txs[q]]
    /\ UNCHANGED <<accounts, clock, last, mk, cd, hx, committed, created>>

\* the runtime takes the transaction's account locks
Schedule(p) ==
    /\ txs[p].pc = "pending"
    /\ CanLock(p)
    /\ txs' = [txs EXCEPT ![p].pc = "locked"]
    /\ UNCHANGED <<accounts, clock, last, mk, cd, hx, committed, created>>

Finish(p, res) == [txs EXCEPT ![p].pc = "done", ![p].res = res, ![p].writes = <<>>]

\* Initialize's account checks, the allocation, and the handler up to its
\* first assignment
LoadInitialize(p) ==
    LET tx == txs[p]
        checked == Initialize(accounts[tx.target])
    IN  /\ tx.pc = "locked"
        /\ tx.op = "initialize"
        /\ IF checked # "Ok"
           THEN /\ txs' = Finish(p, checked)
                /\ UNCHANGED accounts
           ELSE /\ accounts' = [accounts EXCEPT ![tx.target] =
                                   [NoAccount EXCEPT !.initialized = TRUE]]
                /\ txs' = [txs EXCEPT ![p].pc = "writing",
                                      ![p].writes = InitializeWrites(tx.target, clock)]
        /\ UNCHANGED <<clock, last, mk, cd, hx, committed, created>>

\* UpdateRoot's account checks and the handler up to its first assignment
LoadUpdateRoot(p) ==
    LET tx == txs[p]
        checked == UpdateRoot(accounts[tx.target], tx.target, tx.signer)
        out == update_root_handler(accounts[tx.target], tx.new_root, tx.new_count, clock)
    IN  /\ tx.pc = "locked"
        /\ tx.op = "update_root"
        /\ txs' = IF checked # "Ok" THEN Finish(p, checked)
                  ELSE IF out.res # "Ok" THEN Finish(p, out.res)
                  ELSE [txs EXCEPT ![p].pc = "writing",
                                   ![p].writes = UpdateRootWrites(out)]
        /\ UNCHANGED <<accounts, clock, last, mk, cd, hx, committed, created>>

\* VerifyEdge's account checks and the whole handler, which only reads
LoadVerifyEdge(p) ==
    LET tx == txs[p]
        acct == accounts[tx.target]
        checked == VerifyEdge(acct, tx.target)
    IN  /\ tx.pc = "locked"
        /\ tx.op = "verify_edge"
        /\ txs' = [Finish(p, IF checked = "Ok"
                             THEN verify_edge_handler(acct, tx.edge, tx.proof,
                                                      tx.leaf_index)
                             ELSE checked)
                      EXCEPT ![p].seen = acct]
        /\ UNCHANGED <<accounts, clock, last, mk, cd, hx, committed, created>>

\* one assignment of the handler
Write(p) ==
    LET tx == txs[p]
    IN  /\ tx.pc = "writing"
        /\ tx.writes # <<>>
        /\ accounts' = [accounts EXCEPT ![tx.target] =
                           ApplyWrites(accounts[tx.target], <<Head(tx.writes)>>)]
        /\ txs' = [txs EXCEPT ![p].writes = Tail(tx.writes)]
        /\ UNCHANGED <<clock, last, mk, cd, hx, committed, created>>

\* the handler returns Ok(()) and the locks are released
Commit(p) ==
    LET tx == txs[p]
    IN  /\ tx.pc = "writing"
        /\ tx.writes = <<>>
        /\ txs' = Finish(p, "Ok")
        /\ committed' = [committed EXCEPT ![tx.target] = accounts[tx.target]]
        /\ created' = IF tx.op = "initialize"
                      THEN [created EXCEPT ![tx.target] = @ + 1]
                      ELSE created
        /\ UNCHANGED <<accounts, clock, last, mk, cd, hx>>

ConcTick == /\ clock < MaxTime
            /\ clock' = clock + 1
            /\ UNCHANGED <<accounts, last, mk, cd, hx, concVars>>

ConcNext == \/ \E p \in Procs, call \in ConcCalls : Submit(p, call)
            \/ \E p \in Procs : Schedule(p)
            \/ \E p \in Procs : LoadInitialize(p)
            \/ \E p \in Procs : LoadUpdateRoot(p)
            \/ \E p \in Procs : LoadVerifyEdge(p)
            \/ \E p \in Procs : Write(p)
            \/ \E p \in Procs : Commit(p)
            \/ ConcTick

----------------------------------------------------------------------------
(* state/trust_edge.rs: the borsh decoding of TrustEdgeData, and the       *)
(* encoding and decoding applied to edges                                  *)

SERIALIZED_SIZE == 43

\* the unsigned integer of little-endian bytes
RECURSIVE FromLE(_)
FromLE(bytes) == IF bytes = <<>> THEN 0 ELSE Head(bytes) + 256 * FromLE(Tail(bytes))

\* the two's complement integer of little-endian bytes
RECURSIVE FromLESigned(_)
FromLESigned(bytes) ==
    IF Len(bytes) = 1
    THEN IF bytes[1] >= 128 THEN bytes[1] - 256 ELSE bytes[1]
    ELSE Head(bytes) + 256 * FromLESigned(Tail(bytes))

\* the key of 32 bytes
PubkeyFrom(bytes) == CHOOSE k \in 0 .. 255 : PubkeyBytes(k) = bytes

NoEdge == Edge(0, 0, 0, 0)

\* TrustEdgeData::try_from_slice: every byte is read, and the dimension tag
\* is one of the five variants
try_from_slice(bytes) ==
    IF Len(bytes) # SERIALIZED_SIZE THEN [ok |-> FALSE, edge |-> NoEdge]
    ELSE IF bytes[33] \notin 0 .. 4 THEN [ok |-> FALSE, edge |-> NoEdge]
    ELSE [ok |-> TRUE,
          edge |-> Edge(PubkeyFrom(SubSeq(bytes, 1, 32)), bytes[33],
                        FromLE(SubSeq(bytes, 34, 35)),
                        FromLESigned(SubSeq(bytes, 36, 43)))]

\* valid edges: dimension tag 0..4, weight 0..10000
CodecEdges ==
    {Edge(t, d, w, c) : t \in {0, 1, 255}, d \in 0 .. 4,
                        w \in {0, 255, 256, 10000},
                        c \in {-257, -1, 0, 1, 256, 2147483647}}

CodecIdle == [pc |-> "idle", edge |-> NoEdge, bytes |-> <<>>,
              decoded |-> [ok |-> FALSE, edge |-> NoEdge]]

Encode ==
    /\ cd.pc = "edge"
    /\ cd' = [cd EXCEPT !.pc = "encoded", !.bytes = try_to_vec(cd.edge)]
    /\ UNCHANGED <<chainVars, concVars, mk, hx>>

Decode ==
    /\ cd.pc = "encoded"
    /\ cd' = [cd EXCEPT !.pc = "decoded", !.decoded = try_from_slice(cd.bytes)]
    /\ UNCHANGED <<chainVars, concVars, mk, hx>>

CodecNext == Encode \/ Decode

----------------------------------------------------------------------------
(* state/merkle.rs, tests: the hashes of a byte string and of a pair of    *)
(* 32-byte values, with and without the domain prefix, and verify_proof on *)
(* the tree of the pair                                                    *)

\* leaf data: empty, one byte equal to a prefix, an encoded edge, and the
\* bytes of a node preimage
DataInputs ==
    {<<>>, LEAF_PREFIX, NODE_PREFIX, <<0, 0>>, try_to_vec(EdgeA),
     NODE_PREFIX \o ZeroRoot \o Bytes32Of(1)}

HashValues == {ZeroRoot, Bytes32Of(1), LeafOf(EdgeA), LeafOf(EdgeB)}

HashIdle ==
    [pc |-> "idle", d |-> <<>>, l |-> ZeroRoot, r |-> ZeroRoot,
     leaf |-> <<>>, plain |-> <<>>, node |-> <<>>, swapped |-> <<>>,
     plainpair |-> <<>>, held |-> 0, index |-> 0, computed |-> <<>>,
     result |-> FALSE]

\* hash_leaf(d) next to the hash of d alone
HashData ==
    /\ hx.pc = "input"
    /\ hx' = [hx EXCEPT !.pc = "leaf", !.leaf = hash_leaf(hx.d),
                        !.plain = keccak(hx.d)]
    /\ UNCHANGED <<chainVars, concVars, mk, cd>>

\* hash_nodes(l, r) next to hash_nodes(r, l) and the hash of l || r alone
HashPair ==
    /\ hx.pc = "leaf"
    /\ hx' = [hx EXCEPT !.pc = "node", !.node = hash_nodes(hx.l, hx.r),
                        !.swapped = hash_nodes(hx.r, hx.l),
                        !.plainpair = keccak(hx.l \o hx.r)]
    /\ UNCHANGED <<chainVars, concVars, mk, cd>>

\* the leaf at position i of the two-leaf tree [l, r] and its sibling
PairLeaf(h, i) == IF i = 0 THEN h.l ELSE h.r
PairSibling(h, i) == IF i = 0 THEN h.r ELSE h.l

\* verify_proof of the proof of leaf i against root hash_nodes(l, r), called
\* with index j
VerifyPair(i, j) ==
    /\ hx.pc = "node"
    /\ hx' = [hx EXCEPT !.pc = "verified", !.held = i, !.index = j,
                        !.computed = ProofWalk(<<PairSibling(hx, i)>>,
                                               PairLeaf(hx, i), j),
                        !.result = verify_proof(<<PairSibling(hx, i)>>, hx.node,
                                                PairLeaf(hx, i), j)]
    /\ UNCHANGED <<chainVars, concVars, mk, cd>>

HashNext == \/ HashData
            \/ HashPair
            \/ \E i \in 0 .. 1, j \in 0 .. 3 : VerifyPair(i, j)

----------------------------------------------------------------------------
(* Specifications *)

MerkleIdle == NoProof @@ [leaves |-> <<ZeroRoot>>]

\* whole transactions, one after the other
Init == /\ accounts = [k \in Keys |-> NoAccount]
        /\ clock = 0
        /\ last = NoCall
        /\ mk = MerkleIdle
        /\ cd = CodecIdle
        /\ hx = HashIdle
        /\ txs = [p \in Procs |-> NoTx]
        /\ committed = [k \in Keys |-> NoAccount]
        /\ created = [k \in Keys |-> 0]

Spec == Init /\ [][Next]_vars

MerkleInit ==
    /\ \E t \in Trees : mk = [NoProof EXCEPT !.pc = "built"] @@ [leaves |-> t]
    /\ cd = CodecIdle
    /\ hx = HashIdle
    /\ accounts = [k \in Keys |-> NoAccount]
    /\ clock = 0
    /\ last = NoCall
    /\ txs = [p \in Procs |-> NoTx]
    /\ committed = [k \in Keys |-> NoAccount]
    /\ created = [k \in Keys |-> 0]

MerkleNext == \/ \E i \in 0 .. Pow2(MaxDepth) - 1 : Prove(i)
              \/ \E pos \in 1 .. MaxDepth, v \in TamperValues : Tamper(pos, v)

\* verify_proof on trees
SpecMerkle == MerkleInit /\ [][MerkleNext]_vars

\* transactions of two clients, interleaved step by step under the locks
SpecConc == Init /\ [][ConcNext]_vars

CodecInit ==
    /\ \E e \in CodecEdges : cd = [CodecIdle EXCEPT !.pc = "edge", !.edge = e]
    /\ hx = HashIdle
    /\ mk = MerkleIdle
    /\ accounts = [k \in Keys |-> NoAccount]
    /\ clock = 0
    /\ last = NoCall
    /\ txs = [p \in Procs |-> NoTx]
    /\ committed = [k \in Keys |-> NoAccount]
    /\ created = [k \in Keys |-> 0]

\* encoding then decoding of valid edges
SpecCodec == CodecInit /\ [][CodecNext]_vars

HashInit ==
    /\ \E d \in DataInputs, l \in HashValues, r \in HashValues :
           hx = [HashIdle EXCEPT !.pc = "input", !.d = d, !.l = l, !.r = r]
    /\ cd = CodecIdle
    /\ mk = MerkleIdle
    /\ accounts = [k \in Keys |-> NoAccount]
    /\ clock = 0
    /\ last = NoCall
    /\ txs = [p \in Procs |-> NoTx]
    /\ committed = [k \in Keys |-> NoAccount]
    /\ created = [k \in Keys |-> 0]

\* the hashes of byte strings and pairs
SpecHash == HashInit /\ [][HashNext]_vars

----------------------------------------------------------------------------
(* Steps of Spec, named by the call they leave in last *)

InitializeStep == /\ last'.op = "initialize"
                  /\ initialize(last'.target)

UpdateRootStep ==
    /\ last'.op = "update_root"
    /\ update_root(last'.target, last'.signer, last'.new_root, last'.new_count)

VerifyEdgeStep ==
    /\ last'.op = "verify_edge"
    /\ verify_edge(last'.target, last'.edge, last'.proof, last'.leaf_index)

----------------------------------------------------------------------------
(* Claims *)

\* C1: on an existing record and an edge of weight <= 10000, verify_edge
\* succeeds exactly when verify_proof accepts the proof against the root
\* stored in the record at the call, for the leaf hash_leaf(encoding of the
\* edge) and the given index; otherwise it fails with InvalidMerkleProof.
C1_VerifyIffProof ==
    [][(/\ VerifyEdgeStep
        /\ accounts[last'.target].initialized
        /\ last'.edge.weight <= 10000)
       => last'.res =
            IF verify_proof(last'.proof, accounts[last'.target].merkle_root,
                            hash_leaf(try_to_vec(last'.edge)), last'.leaf_index)
            THEN "Ok" ELSE "InvalidMerkleProof"]_vars

C1_Witness ==
    /\ last.op = "verify_edge"
    /\ last.res = "Ok"
    /\ Len(last.proof) = 1
    /\ accounts[last.target].edge_count = 2

\* C2: update_root signed by a key that is not the record's owner fails
\* with AuthorizationError whatever new_root and new_count are, and leaves
\* the record (merkle_root, edge_count, last_updated) as it was.
C2_NonOwnerRejected ==
    [][(/\ UpdateRootStep
        /\ accounts[last'.target].initialized
        /\ last'.signer # accounts[last'.target].owner)
       => /\ last'.res = "AuthorizationError"
          /\ accounts'[last'.target].merkle_root = accounts[last'.target].merkle_root
          /\ accounts'[last'.target].edge_count = accounts[last'.target].edge_count
          /\ accounts'[last'.target].last_updated = accounts[last'.target].last_updated]_vars

\* a non-owner call whose arguments would fail validation as well, made
\* after the clock moved past the record's last update
C2_Witness ==
    /\ last.op = "update_root"
    /\ last.res = "AuthorizationError"
    /\ accounts[last.target].initialized
    /\ last.signer # accounts[last.target].owner
    /\ last.new_count = 0
    /\ last.new_root # ZeroRoot
    /\ clock > accounts[last.target].last_updated

\* C4: update_root by the owner of an existing record fails with
\* EdgeCountOverflow, the record unchanged, exactly when new_count = 0 and
\* new_root is not the zero root; every other pair is accepted.
C4_ValidationIff ==
    [][(/\ UpdateRootStep
        /\ accounts[last'.target].initialized
        /\ last'.signer = accounts[last'.target].owner)
       => IF last'.new_count = 0 /\ last'.new_root # ZeroRoot
          THEN /\ last'.res = "EdgeCountOverflow"
               /\ accounts' = accounts
          ELSE last'.res = "Ok"]_vars

C4_Witness ==
    /\ last.op = "update_root"
    /\ last.res = "EdgeCountOverflow"
    /\ last.signer = accounts[last.target].owner
    /\ accounts[last.target].merkle_root # ZeroRoot

\* C5: after a successful update_root the record holds new_root, new_count
\* and the time of the call.
C5_UpdateWrites ==
    [][(UpdateRootStep /\ last'.res = "Ok")
       => /\ accounts'[last'.target].merkle_root = last'.new_root
          /\ accounts'[last'.target].edge_count = last'.new_count
          /\ accounts'[last'.target].last_updated = clock]_vars

C5_Witness ==
    /\ last.op = "update_root"
    /\ last.res = "Ok"
    /\ last.new_root # ZeroRoot
    /\ accounts[last.target].merkle_root = last.new_root
    /\ accounts[last.target].edge_count = 2
    /\ accounts[last.target].last_updated > accounts[last.target].created_at

\* C8: verify_edge with weight > 10000 on an existing record fails with
\* InvalidTrustWeight whether or not the proof would verify.
C8_WeightFirst ==
    [][(/\ VerifyEdgeStep
        /\ accounts[last'.target].initialized
        /\ last'.edge.weight > 10000)
       => last'.res = "InvalidTrustWeight"]_vars

\* weight 10001 with a proof that verifies against the stored root
C8_Witness ==
    /\ last.op = "verify_edge"
    /\ last.res = "InvalidTrustWeight"
    /\ last.edge.weight = 10001
    /\ verify_proof(last.proof, accounts[last.target].merkle_root,
                    hash_leaf(try_to_vec(last.edge)), last.leaf_index)

\* C9: a successful initialize for a key without a record produces the
\* record owner = key, merkle_root = zero, edge_count = 0 and
\* created_at = last_updated = the time of the call.
C9_InitializeRecord ==
    [][(InitializeStep /\ ~accounts[last'.target].initialized)
       => /\ last'.res = "Ok"
          /\ accounts'[last'.target].initialized
          /\ accounts'[last'.target].owner = last'.target
          /\ accounts'[last'.target].merkle_root = ZeroRoot
          /\ accounts'[last'.target].edge_count = 0
          /\ accounts'[last'.target].created_at = clock
          /\ accounts'[last'.target].last_updated = clock]_vars

C9_Witness ==
    /\ last.op = "initialize"
    /\ last.res = "Ok"
    /\ accounts[last.target].owner = last.target
    /\ accounts[last.target].created_at = 1
    /\ clock = 1

\* C6: in a balanced tree of 1, 2 or 4 leaves built bottom-up with
\* hash_nodes, verify_proof accepts, for every leaf index i, the leaf-to-root
\* sibling path of leaf i with the tree's root, leaf i and index i.
C6_SiblingPathVerifies ==
    mk.pc = "proved"
        => /\ mk.result
           /\ Len(mk.proof) \in 0 .. MaxDepth
           /\ Len(mk.leaves) = Pow2(Len(mk.proof))

C6_Witness ==
    /\ mk.pc = "proved"
    /\ Len(mk.leaves) = 4
    /\ mk.index = 1
    /\ mk.leaves[1] # mk.leaves[2]
    /\ mk.result

\* C7: in a tree of two or four leaves, replacing one element of the
\* sibling path of leaf i by any other value makes verify_proof reject.
C7_TamperedProofFails == mk.pc = "tampered" => ~mk.result

C7_Witness ==
    /\ mk.pc = "tampered"
    /\ Len(mk.leaves) = 4
    /\ mk.pos = 2
    /\ mk.index = 3
    /\ ~mk.result

\* C3: of the initialize transactions for one key, in any interleaving, one
\* succeeds and every other fails with AlreadyExists; a failing initialize
\* leaves every account as it was.
C3_InitializeOnce ==
    [][\A p \in Procs :
          (txs[p].op = "initialize" /\ txs[p].pc = "locked" /\ txs'[p].pc # "locked")
              => \/ /\ txs'[p].pc = "writing"
                    /\ created[txs[p].target] = 0
                 \/ /\ txs'[p].pc = "done"
                    /\ txs'[p].res = "AlreadyExists"
                    /\ created[txs[p].target] = 1
                    /\ accounts' = accounts]_vars
    /\ [][\A p \in Procs :
             (txs[p].op = "initialize" /\ txs'[p].pc = "done" /\ txs'[p].res = "Ok")
                 => created'[txs[p].target] = 1]_vars

\* an initialize that was in flight together with another writer of the
\* record and failed, the record by then holding a published root
C3_Witness ==
    \E p \in Procs :
        /\ txs[p].op = "initialize"
        /\ txs[p].pc = "done"
        /\ txs[p].res = "AlreadyExists"
        /\ txs[p].raced
        /\ accounts[txs[p].target].merkle_root # ZeroRoot
        /\ created[txs[p].target] = 1

\* what verify_edge answers on a record
VerifyOutcome(rec, tx) ==
    IF ~rec.initialized THEN "AccountNotInitialized"
    ELSE IF tx.edge.weight > 10000 THEN "InvalidTrustWeight"
    ELSE IF verify_proof(tx.proof, rec.merkle_root, hash_leaf(try_to_vec(tx.edge)),
                         tx.leaf_index)
         THEN "Ok" ELSE "InvalidMerkleProof"

\* C11: in every reachable state, every record whose merkle_root is all
\* zeros has edge_count 0.
C11_ZeroRootZeroCount ==
    \A k \in Keys :
        (accounts[k].initialized /\ accounts[k].merkle_root = ZeroRoot)
            => accounts[k].edge_count = 0

\* the result of a call, from the record at the address it names and its
\* arguments
CallOutcome(rec, call) ==
    IF call.op = "initialize"
    THEN IF rec.initialized THEN "AlreadyExists" ELSE "Ok"
    ELSE IF call.op = "update_root"
    THEN IF ~rec.initialized THEN "AccountNotInitialized"
         ELSE IF call.signer # rec.owner THEN "AuthorizationError"
         ELSE IF ~(call.new_count > 0 \/ call.new_root = ZeroRoot)
              THEN "EdgeCountOverflow"
              ELSE "Ok"
    ELSE VerifyOutcome(rec, call)

\* C12: a call addressed to the record of one owner leaves the record of
\* every other owner as it was, existence and every field, and its result
\* is decided by the addressed record and the call's arguments alone.
C12_Frame ==
    [][clock' = clock
       => /\ \A k \in Keys \ {last'.target} : accounts'[k] = accounts[k]
          /\ last'.res = CallOutcome(accounts[last'.target], last')]_vars

\* an owner's update accepted while another owner's record holds another
\* root
C12_Witness ==
    /\ last.op = "update_root"
    /\ last.res = "Ok"
    /\ \E k \in Keys \ {last.target} :
          /\ accounts[k].initialized
          /\ accounts[k].merkle_root # accounts[last.target].merkle_root
          /\ accounts[k].edge_count # accounts[last.target].edge_count

\* C13: decoding the encoding of a valid edge gives the edge back; the
\* encoding is 43 bytes, trustee (32), dimension tag (1), weight (2),
\* created_at (8) in this order; no other valid edge has the same encoding.
C13_RoundTrip ==
    cd.pc = "decoded"
        => /\ cd.decoded = [ok |-> TRUE, edge |-> cd.edge]
           /\ Len(cd.bytes) = SERIALIZED_SIZE
           /\ SubSeq(cd.bytes, 1, 32) = PubkeyBytes(cd.edge.trustee)
           /\ cd.bytes[33] = cd.edge.dimension
           /\ FromLE(SubSeq(cd.bytes, 34, 35)) = cd.edge.weight
           /\ FromLESigned(SubSeq(cd.bytes, 36, 43)) = cd.edge.created_at
           /\ \A e \in CodecEdges : try_to_vec(e) = cd.bytes => e = cd.edge

\* the heaviest valid edge, of the last dimension, created before the epoch
C13_Witness ==
    /\ cd.pc = "decoded"
    /\ cd.decoded.ok
    /\ cd.edge.weight = 10000
    /\ cd.edge.dimension = 4
    /\ cd.edge.created_at = -257
    /\ cd.edge.trustee = 255

\* C14: hash_leaf(d) is not the hash of d alone, and hash_nodes(l, r) is
\* not the hash of l || r alone.
C14_DomainSeparation ==
    /\ hx.pc \in {"leaf", "node", "verified"} => hx.leaf # hx.plain
    /\ hx.pc \in {"node", "verified"} => hx.node # hx.plainpair

\* leaf data that are the bytes hash_nodes hashes for the pair
C14_Witness ==
    /\ hx.pc = "node"
    /\ hx.d = NODE_PREFIX \o hx.l \o hx.r
    /\ hx.plain = hx.node
    /\ hx.leaf # hx.node

\* C15: hash_nodes(l, r) differs from hash_nodes(r, l) when l # r; the
\* walk combines as hash_nodes(computed, sibling) at an even index and as
\* hash_nodes(sibling, computed) at an odd one; in the two-leaf tree of
\* distinct leaves the proof of a leaf is accepted with the leaf's index and
\* refused with the other index.
C15_OrderByParity ==
    /\ (hx.pc \in {"node", "verified"} /\ hx.l # hx.r) => hx.node # hx.swapped
    /\ hx.pc = "verified"
         => /\ hx.index % 2 = 0
                => hx.computed = hash_nodes(PairLeaf(hx, hx.held),
                                            PairSibling(hx, hx.held))
            /\ hx.index % 2 = 1
                => hx.computed = hash_nodes(PairSibling(hx, hx.held),
                                            PairLeaf(hx, hx.held))
            /\ hx.index = hx.held => hx.result
            /\ (hx.l # hx.r /\ hx.index = 1 - hx.held) => ~hx.result

\* the proof of the right leaf offered with the left leaf's index
C15_Witness ==
    /\ hx.pc = "verified"
    /\ hx.l # hx.r
    /\ hx.held = 1
    /\ hx.index = 0
    /\ ~hx.result

\* C16: a record that exists changes only in an update_root on it, signed
\* by its owner, that succeeds; verify_edge, whatever it answers, and a
\* failing update_root or initialize change no field of any record.
C16_OnlyOwnerUpdateWrites ==
    [][/\ \A k \in Keys :
             (accounts[k].initialized /\ accounts'[k] # accounts[k])
                 => /\ last'.op = "update_root"
                    /\ last'.target = k
                    /\ last'.signer = accounts[k].owner
                    /\ last'.res = "Ok"
       /\ (clock' = clock /\ (last'.op = "verify_edge" \/ last'.res # "Ok"))
             => accounts' = accounts]_vars

\* a verification accepted on a record its owner had updated
C16_Witness ==
    /\ last.op = "verify_edge"
    /\ last.res = "Ok"
    /\ accounts[last.target].last_updated > accounts[last.target].created_at
    /\ \E k \in Keys : ~accounts[k].initialized

\* C17: a record comes to exist only in a successful initialize of its
\* owner; update_root and verify_edge on an address without a record fail
\* and create nothing; a record that exists exists ever after, with the
\* owner and created_at it was given.
C17_Lifecycle ==
    [][\A k \in Keys :
          /\ (~accounts[k].initialized /\ accounts'[k].initialized)
                => /\ last'.op = "initialize"
                   /\ last'.target = k
                   /\ last'.res = "Ok"
          /\ (/\ clock' = clock
              /\ last'.target = k
              /\ last'.op \in {"update_root", "verify_edge"}
              /\ ~accounts[k].initialized)
                => /\ last'.res # "Ok"
                   /\ accounts' = accounts
          /\ accounts[k].initialized
                => /\ accounts'[k].initialized
                   /\ accounts'[k].owner = accounts[k].owner
                   /\ accounts'[k].created_at = accounts[k].created_at]_vars

\* an update refused at an address without a record, after another record
\* was updated
C17_Witness ==
    /\ last.op = "update_root"
    /\ last.res = "AccountNotInitialized"
    /\ ~accounts[last.target].initialized
    /\ \E k \in Keys :
          /\ accounts[k].initialized
          /\ accounts[k].last_updated > accounts[k].created_at

\* C18: in every reachable state, every record whose edge_count is 0 has
\* the all-zero merkle_root.
C18_ZeroCountZeroRoot ==
    \A k \in Keys :
        (accounts[k].initialized /\ accounts[k].edge_count = 0)
            => accounts[k].merkle_root = ZeroRoot

\* an update to no edges accepted after the record's creation
C18_Witness ==
    /\ last.op = "update_root"
    /\ last.res = "Ok"
    /\ last.new_count = 0
    /\ accounts[last.target].edge_count = 0
    /\ accounts[last.target].last_updated > accounts[last.target].created_at

\* C19: of two verify_edge calls with the same record, edge, proof and
\* index, one of which succeeded, the other succeeds when it read the same
\* merkle_root and fails with InvalidMerkleProof when it read another one.
C19_OneRoot ==
    \A p \in Procs : \A q \in Procs \ {p} :
        (/\ txs[p].op = "verify_edge" /\ txs[p].pc = "done"
         /\ txs[q].op = "verify_edge" /\ txs[q].pc = "done"
         /\ txs[p].res = "Ok"
         /\ txs[q].seen.initialized
         /\ txs[q].target = txs[p].target
         /\ txs[q].edge = txs[p].edge
         /\ txs[q].proof = txs[p].proof
         /\ txs[q].leaf_index = txs[p].leaf_index)
            => txs[q].res = IF txs[q].seen.merkle_root = txs[p].seen.merkle_root
                            THEN "Ok" ELSE "InvalidMerkleProof"

\* the same call accepted before an update of the root and refused after it
C19_Witness ==
    \E p \in Procs : \E q \in Procs \ {p} :
        /\ txs[p].op = "verify_edge" /\ txs[p].pc = "done" /\ txs[p].res = "Ok"
        /\ txs[q].op = "verify_edge" /\ txs[q].pc = "done"
        /\ txs[q].edge = txs[p].edge
        /\ txs[q].res = "InvalidMerkleProof"
        /\ txs[q].seen.last_updated > txs[p].seen.last_updated
        /\ txs[q].seen.merkle_root # txs[p].seen.merkle_root

\* C20: verify_edge answers the same for every index congruent to the given
\* one modulo 2^len(proof); with the empty proof it accepts exactly when the
\* leaf is the root, whatever the index; the index is not compared with
\* edge_count.
C20_IndexLowBits ==
    (last.op = "verify_edge" /\ accounts[last.target].initialized)
        => LET rec == accounts[last.target]
           IN  /\ \A j \in 0 .. 2 * Pow2(MaxDepth) :
                     j % Pow2(Len(last.proof)) = last.leaf_index % Pow2(Len(last.proof))
                         => last.res = VerifyOutcome(rec, [last EXCEPT !.leaf_index = j])
               /\ (last.proof = <<>> /\ last.edge.weight <= 10000)
                     => (last.res = "Ok" <=> LeafOf(last.edge) = rec.merkle_root)

\* a verification accepted with an index beyond the proof's bits and not
\* below the record's edge_count
C20_Witness ==
    /\ last.op = "verify_edge"
    /\ last.res = "Ok"
    /\ last.leaf_index >= accounts[last.target].edge_count
    /\ last.leaf_index >= Pow2(Len(last.proof))
    /\ accounts[last.target].edge_count > 0

====
